---- MODULE Spec2Model ----
(***************************************************************************)
(* Recipe search web application (src/app.py): the session state kept by   *)
(* /generate, /results, /load-more-recipes and /recipe/<id>, the upstream  *)
(* search and detail calls they issue and the two memoizing caches.        *)
(*                                                                         *)
(* One action is one HTTP request handled from start to finish (requests   *)
(* of one browser session are handled one at a time).  The variable `last` *)
(* holds the local variables and the response of the request handled last. *)
(***************************************************************************)
EXTENDS Integers, Sequences, FiniteSets, TLC

VARIABLES
    search_history,   \* session['search_history']: sequence of search terms
    current_search,   \* session['current_search']: <<>> (key absent) or <<record>>
    current_recipes,  \* session['current_recipes']: <<>> (key absent) or <<list of cards>>
    cache,            \* memoized fetch_recipes_by_ingredients: live <<key, response>> entries
    details_cache,    \* memoized fetch_recipe_details: live <<recipe id, response>> entries
    last,             \* locals and outcome of the request handled last
    uncached,         \* outcome the last request would have had with memoization disabled
    submission,       \* <<>> or <<query of the /generate that created current_search>>
    who,              \* the browser whose session cookie the variables above hold
    other,            \* the session cookie of the other browser
    probe             \* a function applied on its own: its arguments and its result

vars == <<search_history, current_search, current_recipes, cache, details_cache,
          last, uncached, submission, who, other, probe>>

----------------------------------------------------------------------------
(* Program constants *)

RECIPES_PER_PAGE == 12

HISTORY_LIMIT == 5

(* Bounds of the model *)

MaxPage == 3                \* largest page form value / query argument tried

MaxTotalResults == 30       \* largest totalResults the upstream reports

MaxCached == 1              \* memoized search responses alive at one time

----------------------------------------------------------------------------
(* Flash messages *)

MSG_NO_INGREDIENTS == "Please enter at least one ingredient."
MSG_QUOTA          == "API quota exceeded. Please try again later."
MSG_AUTH           == "API authentication failed."
MSG_UNAVAILABLE    == "Service temporarily unavailable. Please try again."
MSG_UPSTREAM       == "Upstream error. Please try again."
MSG_TIMEOUT        == "Request timed out. Please try again."
MSG_NETWORK        == "Network error. Please check your connection."
MSG_UNEXPECTED     == "An unexpected error occurred. Please try again."
MSG_NO_RESULTS     == "No search results found. Please search for recipes first."
MSG_NO_SEARCH      == "No active search found. Please search for recipes first."
MSG_NO_DETAILS     == "Could not fetch recipe details."
MSG_DETAIL_ERROR   == "Error loading recipe details."
NoFlash            == ""

----------------------------------------------------------------------------
(* Strings.  An ingredient entry is one atom; a comma-joined string is the *)
(* sequence of its entries with "," atoms between them.                    *)

\* str.strip() on one comma-separated entry of the form field
Strip(e) ==
    CASE e = " "     -> ""
      [] e = " egg"  -> "egg"
      [] e = "rice " -> "rice"
      [] OTHER       -> e

\* a parse that keeps the blank entries
RECURSIVE ParseIngredients_KeepBlank(_)
ParseIngredients_KeepBlank(raw) ==
    IF raw = <<>> THEN <<>>
    ELSE <<Strip(Head(raw))>> \o ParseIngredients_KeepBlank(Tail(raw))

\* [i.strip() for i in raw.split(",") if i.strip()]
RECURSIVE ParseIngredients(_)
ParseIngredients(raw) ==
    IF raw = <<>> THEN <<>>
    ELSE LET e == Strip(Head(raw))
         IN  IF e = "" THEN ParseIngredients(Tail(raw))
             ELSE <<e>> \o ParseIngredients(Tail(raw))

\* ",".join(ingredients)
RECURSIVE Join(_)
Join(ingredients) ==
    IF ingredients = <<>> THEN <<>>
    ELSE IF Len(ingredients) = 1 THEN <<Head(ingredients)>>
    ELSE <<Head(ingredients), ",">> \o Join(Tail(ingredients))

\* str.lower() on the direction form value
Lower(d) ==
    CASE d = "PREV" -> "prev"
      [] d = "Next" -> "next"
      [] OTHER      -> d

\* x in list
Contains(list, x) == \E i \in 1..Len(list) : list[i] = x

\* list[:n]
Prefix(list, n) == SubSeq(list, 1, IF Len(list) < n THEN Len(list) ELSE n)

Max(a, b) == IF a >= b THEN a ELSE b

Min(a, b) == IF a <= b THEN a ELSE b

\* math.ceil(a / b) for a >= 0, b > 0
Ceil(a, b) == (a + b - 1) \div b

----------------------------------------------------------------------------
(* Text.  Where the characters of a string matter it is the sequence of    *)
(* its characters; None is a value apart from every string.                *)

None == <<"None">>

Whitespace == {" ", "\t"}

Digits == {"0", "1", "2", "3", "4", "5", "6", "7", "8", "9"}

\* str.lower(), one character
LowerChar(c) ==
    CASE c = "A" -> "a"
      [] c = "B" -> "b"
      [] c = "C" -> "c"
      [] c = "D" -> "d"
      [] c = "E" -> "e"
      [] c = "F" -> "f"
      [] c = "G" -> "g"
      [] c = "H" -> "h"
      [] c = "I" -> "i"
      [] c = "J" -> "j"
      [] c = "K" -> "k"
      [] c = "L" -> "l"
      [] c = "M" -> "m"
      [] c = "N" -> "n"
      [] c = "O" -> "o"
      [] c = "P" -> "p"
      [] c = "Q" -> "q"
      [] c = "R" -> "r"
      [] c = "S" -> "s"
      [] c = "T" -> "t"
      [] c = "U" -> "u"
      [] c = "V" -> "v"
      [] c = "W" -> "w"
      [] c = "X" -> "x"
      [] c = "Y" -> "y"
      [] c = "Z" -> "z"
      [] OTHER -> c

\* str.lower()
LowerStr(s) == [i \in 1..Len(s) |-> LowerChar(s[i])]

\* str.strip()
RECURSIVE StripStr(_)
StripStr(s) ==
    IF s = <<>> THEN s
    ELSE IF Head(s) \in Whitespace THEN StripStr(Tail(s))
    ELSE IF s[Len(s)] \in Whitespace THEN StripStr(SubSeq(s, 1, Len(s) - 1))
    ELSE s

\* str.split(): the maximal runs of non-whitespace characters, in order
RECURSIVE SplitFrom(_, _)
SplitFrom(s, word) ==
    IF s = <<>> THEN (IF word = <<>> THEN <<>> ELSE <<word>>)
    ELSE IF Head(s) \in Whitespace
         THEN (IF word = <<>> THEN <<>> ELSE <<word>>) \o SplitFrom(Tail(s), <<>>)
         ELSE SplitFrom(Tail(s), Append(word, Head(s)))

SplitWords(s) == SplitFrom(s, <<>>)

\* ' '.join(words)
RECURSIVE JoinWords(_)
JoinWords(words) ==
    IF words = <<>> THEN <<>>
    ELSE IF Len(words) = 1 THEN Head(words)
    ELSE Head(words) \o <<" ">> \o JoinWords(Tail(words))

\* str.isdigit()
IsDigit(w) == w # <<>> /\ \A i \in 1..Len(w) : w[i] \in Digits

\* a in b, for strings
IsSubstring(a, b) ==
    \E i \in 0..(Len(b) - Len(a)) : SubSeq(b, i + 1, i + Len(a)) = a

----------------------------------------------------------------------------
(* normalize_ingredient_name *)

\* measurement_words
MeasurementWords ==
    {<<"c", "u", "p">>,
     <<"c", "u", "p", "s">>,
     <<"t", "b", "s", "p">>,
     <<"t", "a", "b", "l", "e", "s", "p", "o", "o", "n">>,
     <<"t", "a", "b", "l", "e", "s", "p", "o", "o", "n", "s">>,
     <<"t", "s", "p">>,
     <<"t", "e", "a", "s", "p", "o", "o", "n">>,
     <<"t", "e", "a", "s", "p", "o", "o", "n", "s">>,
     <<"o", "z">>,
     <<"o", "u", "n", "c", "e">>,
     <<"o", "u", "n", "c", "e", "s">>,
     <<"l", "b">>,
     <<"p", "o", "u", "n", "d">>,
     <<"p", "o", "u", "n", "d", "s">>,
     <<"g">>,
     <<"g", "r", "a", "m">>,
     <<"g", "r", "a", "m", "s">>,
     <<"k", "g">>,
     <<"k", "i", "l", "o", "g", "r", "a", "m">>,
     <<"m", "l">>,
     <<"m", "i", "l", "l", "i", "l", "i", "t", "e", "r">>,
     <<"m", "i", "l", "l", "i", "l", "i", "t", "e", "r", "s">>,
     <<"l">>,
     <<"l", "i", "t", "e", "r">>,
     <<"l", "i", "t", "e", "r", "s">>,
     <<"p", "i", "n", "c", "h">>,
     <<"d", "a", "s", "h">>,
     <<"h", "a", "n", "d", "f", "u", "l">>,
     <<"c", "l", "o", "v", "e">>,
     <<"c", "l", "o", "v", "e", "s">>,
     <<"s", "l", "i", "c", "e">>,
     <<"s", "l", "i", "c", "e", "s">>,
     <<"p", "i", "e", "c", "e">>,
     <<"p", "i", "e", "c", "e", "s">>,
     <<"c", "a", "n">>,
     <<"c", "a", "n", "s">>,
     <<"b", "u", "n", "c", "h">>,
     <<"b", "u", "n", "c", "h", "e", "s">>}

\* a filter that keeps the unit words
KeepWord_Units(word) == ~IsDigit(word)

\* not (word.isdigit() or word in measurement_words)
KeepWord(word) == ~(IsDigit(word) \/ word \in MeasurementWords)

\* a filter that stops after the first word it drops
RECURSIVE FilterWords_Once(_)
FilterWords_Once(words) ==
    IF words = <<>> THEN <<>>
    ELSE IF KeepWord(Head(words)) THEN <<Head(words)>> \o FilterWords_Once(Tail(words))
    ELSE Tail(words)

\* the loop over words: filtered_words
RECURSIVE FilterWords(_)
FilterWords(words) ==
    IF words = <<>> THEN <<>>
    ELSE IF KeepWord(Head(words)) THEN <<Head(words)>> \o FilterWords(Tail(words))
    ELSE FilterWords(Tail(words))

normalize_ingredient_name(name) ==
    IF name = None \/ name = <<>> THEN <<>>
    ELSE JoinWords(FilterWords(SplitWords(StripStr(LowerStr(name)))))

----------------------------------------------------------------------------
(* Upstream responses, as session_http.get hands them to the caller.       *)
(* kind "http": a response with a status code and a body; kind "timeout":  *)
(* requests.exceptions.Timeout raised; kind "neterr": any other            *)
(* RequestException raised (connection failure, retries exhausted).        *)
(* body "json": a JSON object; "nonjson": resp.json() raises ValueError;   *)
(* "badshape": JSON that is not an object.                                 *)

HttpResp(status, body, has_total, total, results) ==
    [kind |-> "http", status |-> status, body |-> body,
     has_total |-> has_total, total |-> total, results |-> results,
     attempts |-> 1]

Raised(kind) ==
    [kind |-> kind, status |-> 0, body |-> "none",
     has_total |-> FALSE, total |-> 0, results |-> <<>>,
     attempts |-> 1]

NoResp == [Raised("none") EXCEPT !.attempts = 0]

----------------------------------------------------------------------------
(* session_http.get: the session of _build_session retries a failed        *)
(* attempt.  The network is described by the failures it answers the       *)
(* attempts with, one after the other, and by what it answers after them   *)
(* (`then`: a response, or an exception while the body is read, which is   *)
(* not retried).  The `attempts` field of the result counts the attempts.  *)

\* Retry(total=3)
RETRY_TOTAL == 3

\* status_forcelist
STATUS_FORCELIST == {429, 500, 502, 503, 504}

ConnectTimeout == [error |-> "connect_timeout", status |-> 0]

ReadTimeout == [error |-> "read_timeout", status |-> 0]

RetryStatus(status) == [error |-> "status", status |-> status]

\* the exception requests raises when the retries are used up: ConnectTimeout
\* (a Timeout) after a connect timeout, otherwise a ConnectionError or a
\* RetryError
Exhausted(failure) ==
    Raised(IF failure.error = "connect_timeout" THEN "timeout" ELSE "neterr")

\* a session that retries for as long as the attempts fail
RECURSIVE Attempts_NoLimit(_, _, _, _)
Attempts_NoLimit(failures, then, n, retries_left) ==
    IF failures = <<>> THEN [then EXCEPT !.attempts = n]
    ELSE Attempts_NoLimit(Tail(failures), then, n + 1, retries_left)

\* attempt number n with retries_left retries left
RECURSIVE Attempts(_, _, _, _)
Attempts(failures, then, n, retries_left) ==
    IF failures = <<>> THEN [then EXCEPT !.attempts = n]
    ELSE IF retries_left = 0 THEN [Exhausted(Head(failures)) EXCEPT !.attempts = n]
    ELSE Attempts(Tail(failures), then, n + 1, retries_left - 1)

\* session_http.get(url, params, timeout=REQUEST_TIMEOUT)
SessionGet(net) == Attempts(net.failures, net.then, 1, RETRY_TOTAL)

IsOk(resp) == resp.kind = "http" /\ resp.status = 200 /\ resp.body = "json"

----------------------------------------------------------------------------
(* Memoization (flask_caching memoize over SimpleCache).  A cache is the   *)
(* sequence of its live <<key, response>> entries, oldest first: entries   *)
(* of one cache share one timeout, so they expire in insertion order.      *)

CacheHas(c, key) == \E i \in 1..Len(c) : c[i][1] = key

CacheGet(c, key) == c[CHOOSE i \in 1..Len(c) : c[i][1] = key][2]

\* store a value; when MaxCached entries are alive the oldest has timed out
CachePut(c, key, resp, limit) ==
    LET live == IF Len(c) >= limit THEN Tail(c) ELSE c
    IN  Append(live, <<key, resp>>)

\* A memoized call f(key) while the upstream would answer `up`: the cached
\* value on a hit; otherwise the call is made, and its return value is
\* stored unless it raised.
Memoized(c, key, up, limit) ==
    IF CacheHas(c, key)
    THEN [resp |-> CacheGet(c, key), called |-> FALSE, cache |-> c]
    ELSE [resp |-> up, called |-> TRUE,
          cache |-> IF up.kind = "http" THEN CachePut(c, key, up, limit) ELSE c]

\* The same call with memoization disabled
Direct(c, up) == [resp |-> up, called |-> TRUE, cache |-> c]

----------------------------------------------------------------------------
(* Ingredient entries of a recipe (extendedIngredients) and their          *)
(* classification against the provided ingredients (generate 388-446,      *)
(* load_more_recipes 640-683).                                             *)

\* values a field of an entry can have besides text: the key is missing,
\* null (None, above), or a non-zero number
Absent == <<"Absent">>

Number == <<"Number">>

\* the number n of a field that holds a count (minutes, servings), for its
\* decimal digits n
Num(n) == <<"Number", n>>

Zero == Num("0")

\* texts of the catalogue and of the form field
EGG == <<"e", "g", "g">>

FLOUR == <<"f", "l", "o", "u", "r">>

RICE == <<"r", "i", "c", "e">>

SALT == <<"S", "a", "l", "t">>

TWO_EGGS == <<"2", " ", "l", "a", "r", "g", "e", " ", "E", "g", "g", "s">>

\* bool(v)
Truthy(v) == v # Absent /\ v # None /\ v # <<>> /\ v # Zero

IsText(v) == v # Absent /\ v # None /\ v # Number

\* a or b
Or(a, b) == IF Truthy(a) THEN a ELSE b

\* dict.get(key)
Get(v) == IF v = Absent THEN None ELSE v

\* dict.get(key, "")
GetOrEmpty(v) == IF v = Absent THEN <<>> ELSE v

\* an entry that is a JSON object
Entry(name, original, originalName) ==
    [kind |-> "object", name |-> name, original |-> original,
     originalName |-> originalName]

\* an entry that is not a JSON object (null): it has no .get
NullEntry == [kind |-> "null"]

\* nm = (ing.get("name") or "").lower()
Nm(ing) == IF Truthy(ing.name) THEN LowerStr(ing.name) ELSE <<>>

\* original_txt = ing.get("original") or ing.get("originalName") or nm
OriginalTxt(ing) == Or(Get(ing.original), Or(Get(ing.originalName), Nm(ing)))

\* the statements 398-400 raise: ing.get on a non-object, .lower() on a number
EntryRaises(ing) ==
    \/ ing.kind # "object"
    \/ (Truthy(ing.name) /\ ~IsText(ing.name))
    \/ OriginalTxt(ing) = Number

\* one of the words is longer than 2 characters and occurs in t
AnyLongWordIn(words, t) ==
    \E i \in 1..Len(words) : Len(words[i]) > 2 /\ IsSubstring(words[i], t)

\* any(word in t for word in s.split() if len(word) > 2)
LongWordIn(s, t) == AnyLongWordIn(SplitWords(s), t)

\* a match that asks for equal normalized forms
Matches_Equal(normalized_provided_ing, normalized_ingredient) ==
    normalized_provided_ing = normalized_ingredient

\* the condition at 412-417
Matches(normalized_provided_ing, normalized_ingredient) ==
    \/ IsSubstring(normalized_provided_ing, normalized_ingredient)
    \/ IsSubstring(normalized_ingredient, normalized_provided_ing)
    \/ LongWordIn(normalized_provided_ing, normalized_ingredient)
    \/ LongWordIn(normalized_ingredient, normalized_provided_ing)
    \/ LongWordIn(normalized_provided_ing, normalized_ingredient)

\* is_used after the loop over provided_names (408-420)
IsUsed(provided_names, normalized_ingredient) ==
    \E provided_ing \in provided_names :
        Matches(normalize_ingredient_name(provided_ing), normalized_ingredient)

\* 422-427: original_txt goes to used_list or to missed_list
Appended(used_list, missed_list, original_txt, is_used) ==
    IF is_used
    THEN [used |-> Append(used_list, original_txt), missed |-> missed_list]
    ELSE [used |-> used_list, missed |-> Append(missed_list, original_txt)]

\* 399-427 for one entry that does not raise
MatchEntry(provided_names, used_list, missed_list, original_txt) ==
    Appended(used_list, missed_list, original_txt,
             IsUsed(provided_names, normalize_ingredient_name(original_txt)))

\* the loop 397-427: the lists when it ends, or when an entry raises
RECURSIVE MatchLoop(_, _, _)
MatchLoop(extended, provided_names, lists) ==
    IF extended = <<>>
    THEN [raised |-> FALSE, used |-> lists.used, missed |-> lists.missed]
    ELSE IF EntryRaises(Head(extended))
    THEN [raised |-> TRUE, used |-> lists.used, missed |-> lists.missed]
    ELSE MatchLoop(Tail(extended), provided_names,
                   MatchEntry(provided_names, lists.used, lists.missed,
                              OriginalTxt(Head(extended))))

\* ing.get("original") or ing.get("originalName") or ing.get("name", "")
FallbackTxt(ing) == Or(Get(ing.original), Or(Get(ing.originalName), GetOrEmpty(ing.name)))

\* the loop 433-435 inside the except block: every entry goes to missed;
\* an entry that is not an object raises again
RECURSIVE FallbackLoop(_, _)
FallbackLoop(extended, missed_list) ==
    IF extended = <<>> THEN [raised |-> FALSE, missed |-> missed_list]
    ELSE IF Head(extended).kind # "object" THEN [raised |-> TRUE, missed |-> missed_list]
    ELSE FallbackLoop(Tail(extended), Append(missed_list, FallbackTxt(Head(extended))))

\* 443-444: if original_txt: missed_list.append(original_txt)
AppendedText(missed_list, original_txt) ==
    IF Truthy(original_txt) THEN Append(missed_list, original_txt) ELSE missed_list

\* the loop 441-444: the entries with a text go to missed
RECURSIVE DisplayLoop(_, _)
DisplayLoop(extended, missed_list) ==
    IF extended = <<>> THEN [raised |-> FALSE, missed |-> missed_list]
    ELSE IF Head(extended).kind # "object" THEN [raised |-> TRUE, missed |-> missed_list]
    ELSE DisplayLoop(Tail(extended), AppendedText(missed_list, FallbackTxt(Head(extended))))

\* "Ingredients not available"
Placeholder == <<"I", "n", "g", "r", "e", "d", "i", "e", "n", "t", "s", " ", "n", "o", "t", " ", "a", "v", "a", "i", "l", "a", "b", "l", "e">>

\* a recipe without entries that gets no entry at all
NoIngredients_Empty == [raised |-> FALSE, missed |-> <<>>]

\* 445-446: missed_list = ["Ingredients not available"]
NoIngredients == [raised |-> FALSE, missed |-> <<Placeholder>>]

\* 429-435: the except block after the matching loop m
Fallback(extended, m) ==
    IF m.raised /\ m.used = <<>> /\ m.missed = <<>> /\ extended # <<>>
    THEN FallbackLoop(extended, <<>>)
    ELSE [raised |-> FALSE, missed |-> m.missed]

\* 437-446: lists that are both empty get the entries with a text, or the
\* placeholder
Display(extended) ==
    IF extended # <<>> THEN DisplayLoop(extended, <<>>) ELSE NoIngredients

\* the lists of the card after the matching loop m, the except block fb
\* and the lines 437-446 ds
Classified(m, fb, ds) ==
    IF fb.raised THEN [aborted |-> TRUE, used |-> <<>>, missed |-> <<>>]
    ELSE IF m.used = <<>> /\ fb.missed = <<>>
    THEN [aborted |-> ds.raised, used |-> <<>>, missed |-> ds.missed]
    ELSE [aborted |-> FALSE, used |-> m.used, missed |-> fb.missed]

\* the except block and what follows it, after the matching loop m
AfterMatch(extended, m) == Classified(m, Fallback(extended, m), Display(extended))

\* 388-446: used_list and missed_list of one recipe; aborted when an
\* exception leaves the loop over the results
Classify(extended, provided_names) ==
    AfterMatch(extended,
               MatchLoop(extended, provided_names, [used |-> <<>>, missed |-> <<>>]))

----------------------------------------------------------------------------
(* Nutrition of a recipe (generate 350-362 and 448-460, load_more_recipes  *)
(* 603-617 and 685-697).  An amount is counted in tenths, so that          *)
(* round(amount, 1) is the amount itself.  A key of the nutrition dict     *)
(* holds <<>> while it is not set and <<value>> once it is set.            *)

CALORIE == <<"c", "a", "l", "o", "r", "i", "e">>

PROTEIN == <<"p", "r", "o", "t", "e", "i", "n">>

CARBOHYDRATE == <<"c", "a", "r", "b", "o", "h", "y", "d", "r", "a", "t", "e">>

\* one nutrient record: amount is "number" (tenths holds it), "missing"
\* (no amount key), "null", or "text" (a string float() cannot read)
Nutrient(name, amount, tenths) ==
    [kind |-> "object", name |-> name, amount |-> amount, tenths |-> tenths]

\* a nutrient record that is not a JSON object (null)
NullNutrient == [kind |-> "null"]

\* the nutrition block of a record: kind is "absent" (no nutrition key),
\* "null", "nokey" (an object without nutrients), "nulllist" (nutrients is
\* null) or "object" (nutrients is the list)
NutritionBlock(kind, nutrients) == [kind |-> kind, nutrients |-> nutrients]

NoBlock == NutritionBlock("absent", <<>>)

\* nutrition = {}
NoNutrition == [calories |-> <<>>, protein |-> <<>>, carbs |-> <<>>]

\* name = (nutrient.get("name") or "").lower()
NutrientName(nutrient) ==
    IF Truthy(nutrient.name) THEN LowerStr(nutrient.name) ELSE <<>>

\* the keys the if / elif / elif chain (355-360) sets for the name: the
\* first keyword found, at most
Categories(name) ==
    IF IsSubstring(CALORIE, name) THEN {"calories"}
    ELSE IF IsSubstring(PROTEIN, name) THEN {"protein"}
    ELSE IF IsSubstring(CARBOHYDRATE, name) THEN {"carbs"}
    ELSE {}

\* nutrient.get('amount', 0), in tenths
Amount(nutrient) == IF nutrient.amount = "missing" THEN 0 ELSE nutrient.tenths

\* int(round(x)) for x = tenths / 10: a tie goes to the even neighbour
RoundHalfEven(tenths) ==
    IF tenths % 10 < 5 THEN tenths \div 10
    ELSE IF tenths % 10 > 5 THEN tenths \div 10 + 1
    ELSE IF (tenths \div 10) % 2 = 0 THEN tenths \div 10
    ELSE tenths \div 10 + 1

\* the value the key is set to (356, 358, 360): calories a whole number,
\* protein and carbs in tenths
Value(key, nutrient) ==
    IF key = "calories" THEN <<RoundHalfEven(Amount(nutrient))>>
    ELSE <<Amount(nutrient)>>

\* the statements 354-360 raise for the record: .get on a non-object,
\* .lower() on a number, float() of null or of unreadable text
NutrientRaises(nutrient) ==
    \/ nutrient.kind # "object"
    \/ (Truthy(nutrient.name) /\ ~IsText(nutrient.name))
    \/ (Categories(NutrientName(nutrient)) # {} /\ nutrient.amount \in {"null", "text"})

\* nutrition after the statements 354-360 for one record that does not raise
SetNutrient(nutrition, nutrient) ==
    [key \in DOMAIN nutrition |->
        IF key \in Categories(NutrientName(nutrient))
        THEN Value(key, nutrient) ELSE nutrition[key]]

\* the loop 353-360 inside its try block: a record that raises ends the
\* loop and the dict keeps what it has
RECURSIVE ParseNutrients(_, _)
ParseNutrients(nutrients, nutrition) ==
    IF nutrients = <<>> THEN nutrition
    ELSE IF NutrientRaises(Head(nutrients)) THEN nutrition
    ELSE ParseNutrients(Tail(nutrients), SetNutrient(nutrition, Head(nutrients)))

\* 350-362 and 449-460: only a block with a list of nutrients sets a key
\* (a null block raises at 352 and is skipped at 449; a block without a
\* list is skipped at 352, and gives no record or raises at 451)
BlockNutrition(block) ==
    IF block.kind = "object" THEN ParseNutrients(block.nutrients, NoNutrition)
    ELSE NoNutrition

\* the card gets a record of zeros where nothing was parsed
Summary_Zeros(nutrition) ==
    IF nutrition = NoNutrition
    THEN <<[calories |-> <<0>>, protein |-> <<0>>, carbs |-> <<0>>]>>
    ELSE <<nutrition>>

\* 480: nutrition if nutrition else None; <<>> is None
Summary(nutrition) == IF nutrition = NoNutrition THEN <<>> ELSE <<nutrition>>

\* 448-460 after the search record gave from_search: the detail record is
\* parsed only if nothing was set
NutritionOr(from_search, d, available) ==
    IF from_search # NoNutrition \/ ~available THEN from_search
    ELSE BlockNutrition(d.nutrition)

\* "nutrition" of the card
CardNutrition(r, d, available) ==
    Summary(NutritionOr(BlockNutrition(r.nutrition), d, available))

----------------------------------------------------------------------------
(* Cooking time, servings and dietary badges of a card (462-483).  The     *)
(* flags of a record are the set of its keys among vegetarian, vegan,      *)
(* glutenFree and dairyFree whose value is true.                           *)

DIET_KEYS == <<"vegetarian", "vegan", "glutenFree", "dairyFree">>

DietLabel(key) ==
    CASE key = "vegetarian" -> "Vegetarian"
      [] key = "vegan"      -> "Vegan"
      [] key = "glutenFree" -> "Gluten Free"
      [] key = "dairyFree"  -> "Dairy Free"

\* the badges of the flags, in the order of 465-472
Badges(flags) ==
    LET keys == SelectSeq(DIET_KEYS, LAMBDA key : key \in flags)
    IN  [i \in 1..Len(keys) |-> DietLabel(keys[i])]

\* src = recipe_details or r (464): a detail object is never empty, it
\* holds at least the id
DietarySource(r, d, available) == IF available THEN d ELSE r

DietaryInfo(r, d, available) == Badges(DietarySource(r, d, available).flags)

\* recipe_details.get(key) or r.get(key) (481-482); recipe_details is {}
\* when the detail record is not available
Resolve(of_details, of_search, available) ==
    Or(IF available THEN Get(of_details) ELSE None, Get(of_search))

----------------------------------------------------------------------------
(* Recipe cards.  The upstream knows a fixed catalogue of recipes: a       *)
(* search result names a recipe by its id, Recipe(id) is the record r the  *)
(* search endpoint returns for it and Detail(id) the JSON object the       *)
(* detail endpoint returns for it when it answers 200.                     *)

\* the characters of an ingredient of the form field
Chars(ingredient) ==
    CASE ingredient = "egg"   -> EGG
      [] ingredient = "flour" -> FLOUR
      [] ingredient = "rice"  -> RICE
      [] OTHER                -> <<>>

\* provided_names = {x.lower() for x in ingredients}
ProvidedNames(ingredients) ==
    {LowerStr(Chars(ingredients[i])) : i \in 1..Len(ingredients)}

\* names of nutrient records
CALORIES == <<"C", "a", "l", "o", "r", "i", "e", "s">>

PROTEIN_NAME == <<"P", "r", "o", "t", "e", "i", "n">>

\* a nutrition block that reports 250.5 kcal and 8.0 g of protein
OkBlock ==
    NutritionBlock("object", <<Nutrient(CALORIES, "number", 2505),
                               Nutrient(PROTEIN_NAME, "number", 80)>>)

\* a nutrition block whose only record has an amount float() cannot read
BadBlock == NutritionBlock("object", <<Nutrient(CALORIES, "text", 0)>>)

\* a record with nothing but the id
Bare(rid) ==
    [id |-> rid, nutrition |-> NoBlock, extendedIngredients |-> Absent,
     readyInMinutes |-> Absent, servings |-> Absent, flags |-> {}]

Recipe(rid) ==
    CASE rid = 6 ->    \* well-formed
           [Bare(6) EXCEPT
               !.nutrition = OkBlock,
               !.extendedIngredients = <<Entry(EGG, TWO_EGGS, Absent), Entry(SALT, Absent, Absent)>>,
               !.readyInMinutes = Num("30"), !.servings = Num("4"),
               !.flags = {"vegetarian"}]
      [] rid = 2 ->    \* no ingredients and no nutrition in the search record
           Bare(2)
      [] rid = 3 ->    \* the first entry is not an object
           [Bare(3) EXCEPT
               !.nutrition = OkBlock,
               !.extendedIngredients = <<NullEntry, Entry(EGG, Absent, Absent)>>]
      [] rid = 4 ->    \* the first entry has a number for a name
           [Bare(4) EXCEPT
               !.nutrition = BadBlock,
               !.extendedIngredients = <<Entry(Number, Absent, Absent), Entry(FLOUR, Absent, Absent)>>]
      [] rid = 5 ->    \* an entry after the first has a number for a name
           [Bare(5) EXCEPT
               !.nutrition = OkBlock,
               !.extendedIngredients = <<Entry(Absent, Absent, TWO_EGGS),
                                         Entry(Number, Absent, Absent),
                                         Entry(FLOUR, Absent, Absent)>>]
      [] OTHER ->      \* nothing but the id
           Bare(rid)

Detail(rid) ==
    CASE rid = 2 -> [Bare(2) EXCEPT
                        !.nutrition = OkBlock,
                        !.extendedIngredients = <<Entry(RICE, Absent, Absent), Entry(SALT, Absent, Absent)>>,
                        !.readyInMinutes = Num("45"), !.flags = {"vegan", "dairyFree"}]
      [] rid = 4 -> [Bare(4) EXCEPT !.nutrition = BadBlock]
      [] rid = 6 -> [Bare(6) EXCEPT
                        !.nutrition = OkBlock,
                        !.readyInMinutes = Num("45"), !.servings = Num("2"),
                        !.flags = {"glutenFree"}]
      [] rid = 5 -> [Bare(5) EXCEPT !.nutrition = OkBlock]
      [] OTHER   -> Bare(rid)

\* recipe_details of one recipe: non-empty iff the detail call returned 200 JSON
DetailsAvailable(dresp) == IsOk(dresp)

\* extended (347, 384-386): the entries of the search record, else those
\* of the detail record, else none
Extended(r, d, available) ==
    IF r.extendedIngredients # Absent /\ r.extendedIngredients # <<>>
    THEN r.extendedIngredients
    ELSE IF available /\ d.extendedIngredients # Absent /\ d.extendedIngredients # <<>>
    THEN d.extendedIngredients
    ELSE <<>>

\* 474-485: the card, from the lists c
Card(r, d, available, c) ==
    [aborted |-> c.aborted,
     card    |-> [id |-> r.id, details |-> available,
                  used |-> c.used, missed |-> c.missed,
                  nutrition |-> CardNutrition(r, d, available),
                  readyInMinutes |-> Resolve(d.readyInMinutes, r.readyInMinutes, available),
                  servings |-> Resolve(d.servings, r.servings, available),
                  dietary_info |-> DietaryInfo(r, d, available)]]

\* the body of the loop `for r in results` (341-485) for one result whose
\* detail record is d, if available
Assemble(r, d, available, provided_names) ==
    Card(r, d, available, Classify(Extended(r, d, available), provided_names))

AssembleCard(r, dresp, provided_names) ==
    Assemble(r, Detail(r.id), DetailsAvailable(dresp), provided_names)

\* the loop `for r in results` of generate / load_more_recipes: one card
\* per result, each with one memoized fetch_recipe_details call; failed
\* when an exception leaves the loop
\* fetch_recipe_details(rid, api_key) at 371
FetchDetails(rid, dc, dups, memo) ==
    IF memo THEN Memoized(dc, rid, dups[rid], Len(dc) + 1) ELSE Direct(dc, dups[rid])

\* the cards so far: the card a of this result before those of the rest
Cards(a, f, rest) ==
    IF a.aborted
    THEN [failed |-> TRUE, recipes |-> <<>>, details_cache |-> f.cache]
    ELSE IF rest.failed
    THEN [failed |-> TRUE, recipes |-> <<>>, details_cache |-> rest.details_cache]
    ELSE [failed |-> FALSE, recipes |-> <<a.card>> \o rest.recipes,
          details_cache |-> rest.details_cache]

RECURSIVE BuildCards(_, _, _, _, _)

\* one pass of the loop, the detail call f made
BuildCard(results, ingredients, f, dups, memo) ==
    Cards(AssembleCard(Recipe(Head(results)), f.resp, ProvidedNames(ingredients)),
          f,
          BuildCards(Tail(results), ingredients, f.cache, dups, memo))

BuildCards(results, ingredients, dc, dups, memo) ==
    IF results = <<>> THEN [failed |-> FALSE, recipes |-> <<>>, details_cache |-> dc]
    ELSE BuildCard(results, ingredients, FetchDetails(Head(results), dc, dups, memo),
                   dups, memo)

----------------------------------------------------------------------------
(* Classification of the search response (generate 308-328, 495-506;       *)
(* load_more_recipes 566-585, 731-742): the flashed message, NoFlash when  *)
(* the response is a status-200 JSON object.                               *)

\* a classification that treats every non-200 status alike
FailureMessage_Uniform(resp) ==
    CASE resp.kind = "timeout"    -> MSG_TIMEOUT
      [] resp.kind = "neterr"     -> MSG_NETWORK
      [] resp.status # 200        -> MSG_UNAVAILABLE
      [] resp.body = "nonjson"    -> MSG_UPSTREAM
      [] resp.body = "badshape"   -> MSG_UNEXPECTED
      [] OTHER                    -> NoFlash

FailureMessage(resp) ==
    CASE resp.kind = "timeout"    -> MSG_TIMEOUT
      [] resp.kind = "neterr"     -> MSG_NETWORK
      [] resp.status = 402        -> MSG_QUOTA
      [] resp.status = 401        -> MSG_AUTH
      [] resp.status # 200        -> MSG_UNAVAILABLE
      [] resp.body = "nonjson"    -> MSG_UPSTREAM
      [] resp.body = "badshape"   -> MSG_UNEXPECTED
      [] OTHER                    -> NoFlash

\* payload.get("totalResults") or 0
TotalResults(resp) == IF resp.has_total THEN resp.total ELSE 0

\* a page count that rounds down
PagesFor_Floor(total_results) == Max(1, total_results \div RECIPES_PER_PAGE)

\* max(1, math.ceil(total_results / RECIPES_PER_PAGE))
PagesFor(total_results) == Max(1, Ceil(total_results, RECIPES_PER_PAGE))

\* an offset that counts pages from zero
OffsetFor_ZeroBased(page) == page * RECIPES_PER_PAGE

\* (page - 1) * RECIPES_PER_PAGE
OffsetFor(page) == (page - 1) * RECIPES_PER_PAGE

----------------------------------------------------------------------------
(* The upstream query (params of fetch_recipes_by_ingredients_with_offset) *)

\* pref.strip().lower() mapped to a diet name, "" when it maps to none
DietName(pref) ==
    CASE pref = "Vegetarian"  -> "vegetarian"
      [] pref = "Vegan"       -> "vegan"
      [] pref = "Gluten Free" -> "gluten free"
      [] OTHER                -> ""

\* pref.strip().lower() mapped to an intolerance name, "" when it maps to none
IntoleranceName(pref) ==
    CASE pref = "Dairy Free" -> "dairy"
      [] OTHER               -> ""

\* list(dict.fromkeys(names)) of the non-empty names, in order
RECURSIVE Dedup(_)
Dedup(names) ==
    IF names = <<>> THEN <<>>
    ELSE LET init == Dedup(SubSeq(names, 1, Len(names) - 1))
             x    == names[Len(names)]
         IN  IF x = "" \/ Contains(init, x) THEN init ELSE Append(init, x)

\* _map_dietary_prefs_to_api_params: the diet and intolerances parameters
\* (<<>> when the parameter is not sent)
DietParam(dietary_prefs) ==
    Join(Dedup([i \in 1..Len(dietary_prefs) |-> DietName(dietary_prefs[i])]))

IntoleranceParam(dietary_prefs) ==
    Join(Dedup([i \in 1..Len(dietary_prefs) |-> IntoleranceName(dietary_prefs[i])]))

Query(ingredients_str, dietary_prefs, offset) ==
    [includeIngredients |-> ingredients_str,
     diet               |-> DietParam(dietary_prefs),
     intolerances       |-> IntoleranceParam(dietary_prefs),
     number             |-> RECIPES_PER_PAGE,
     offset             |-> offset]

NoQuery == Query(<<>>, <<>>, 0)

----------------------------------------------------------------------------
(* The record of one handled request *)

Idle ==
    [route         |-> "none",
     raw           |-> <<>>,     \* generate: the entries of the ingredients form field
     page          |-> 0,        \* page form value / query argument
     ingredients   |-> <<>>,     \* ingredients the handler works with
     dietary_prefs |-> <<>>,
     direction     |-> "",
     session_page  |-> 0,        \* load_more_recipes: current_page found in the session
     cur           |-> 0,        \* load_more_recipes: cur
     total_pages   |-> 0,        \* load_more_recipes: total_pages read from the session
     target_page   |-> 0,        \* page fetched
     stored        |-> FALSE,    \* the handler wrote current_search
     called        |-> FALSE,    \* an upstream search call was made
     query         |-> NoQuery,  \* its parameters
     resp          |-> NoResp,   \* the search response the handler used
     flash         |-> NoFlash,
     view          |-> "none",   \* "input" (redirect), "results" (redirect), or a template
     recipes       |-> <<>>,     \* recipes handed to the template / stored
     shown_page    |-> 0,        \* current_page handed on
     shown_total   |-> 0]        \* total_pages handed on

\* what the user gets to see of a request
Outcome(l) ==
    [flash |-> l.flash, view |-> l.view, recipes |-> l.recipes,
     current_page |-> l.shown_page, total_pages |-> l.shown_total]

Session(h, cs, cr, c, dc, sub, l) ==
    [search_history |-> h, current_search |-> cs, current_recipes |-> cr,
     cache |-> c, details_cache |-> dc, submission |-> sub, last |-> l]

----------------------------------------------------------------------------
(* /generate (POST) *)

\* a history that is never cut back to HISTORY_LIMIT entries
UpdateHistory_NoLimit(history, search_term) ==
    IF Contains(history, search_term) THEN history
    ELSE <<search_term>> \o history

\* generate 278-283: the term goes to the front unless it is already there
UpdateHistory(history, search_term) ==
    IF Contains(history, search_term) THEN history
    ELSE Prefix(<<search_term>> \o history, HISTORY_LIMIT)

\* generate 286-291
NewSearch(ingredients, dietary_prefs, page) ==
    [ingredients   |-> ingredients,
     dietary_prefs |-> dietary_prefs,
     current_page  |-> page,
     total_pages   |-> 1]

\* generate 299-303: page 1 (and below) goes through the memoized fetch
GenerateFetch(ingredients_str, dietary_prefs, page, up, memo) ==
    IF page > 1 \/ ~memo THEN Direct(cache, up)
    ELSE Memoized(cache, <<ingredients_str, dietary_prefs>>, up, MaxCached)

\* generate 299-303: the offset of the page fetched
GenerateOffset(page) == IF page > 1 THEN OffsetFor(page) ELSE 0

\* generate 332-333
GenerateTotalPages(total_results) ==
    IF total_results # 0 THEN PagesFor(total_results) ELSE 1

\* The end of generate (487-493, 503-506) and of load_more_recipes (724-729,
\* 739-742) once the cards are built: the recipes are stored and shown,
\* unless an exception left the loop over the results
StoreCards(history, search, c, sub, l, view, built) ==
    IF built.failed
    THEN Session(history, <<search>>, current_recipes, c, built.details_cache, sub,
                 [l EXCEPT !.flash = MSG_UNEXPECTED, !.view = "input"])
    ELSE Session(history, <<search>>, <<built.recipes>>, c, built.details_cache, sub,
                 [l EXCEPT !.view = view, !.recipes = built.recipes,
                           !.shown_page = search.current_page,
                           !.shown_total = search.total_pages])

\* The whole handler: the session and caches it leaves and its outcome.
\* up: what the upstream search answers now; dups: what the detail
\* endpoint answers now for each recipe id; memo: memoization enabled.
GenerateStep(raw, dietary_prefs, page, up, dups, memo) ==
    LET ingredients     == ParseIngredients(raw)
        ingredients_str == Join(ingredients)
        history         == UpdateHistory(search_history, ingredients_str)
        f               == GenerateFetch(ingredients_str, dietary_prefs, page, up, memo)
        offset          == GenerateOffset(page)
        msg             == FailureMessage(f.resp)
        total_pages     == GenerateTotalPages(TotalResults(f.resp))
        search          == NewSearch(ingredients, dietary_prefs, page)
        sub             == <<[ingredients |-> ingredients, dietary_prefs |-> dietary_prefs]>>
        l               == [Idle EXCEPT !.route = "generate", !.raw = raw,
                                        !.page = page,
                                        !.ingredients = ingredients,
                                        !.dietary_prefs = dietary_prefs]
        fetched         == [l EXCEPT !.stored = TRUE, !.target_page = page,
                                     !.called = f.called,
                                     !.query = IF f.called
                                               THEN Query(ingredients_str, dietary_prefs, offset)
                                               ELSE NoQuery,
                                     !.resp = f.resp]
    IN  IF ingredients = <<>>
        THEN Session(search_history, current_search, current_recipes, cache,
                     details_cache, submission,
                     [l EXCEPT !.flash = MSG_NO_INGREDIENTS, !.view = "input"])
        ELSE IF msg # NoFlash
        THEN Session(history, <<search>>, current_recipes, f.cache,
                     details_cache, sub,
                     [fetched EXCEPT !.flash = msg, !.view = "input"])
        ELSE StoreCards(history, [search EXCEPT !.total_pages = total_pages], f.cache,
                        sub, fetched, "results",
                        BuildCards(f.resp.results, ingredients, details_cache, dups, memo))

\* a server that keeps one current_search for all browsers
Commit_Shared(s, s0) ==
    /\ search_history'  = s.search_history
    /\ current_search'  = s.current_search
    /\ current_recipes' = s.current_recipes
    /\ cache'           = s.cache
    /\ details_cache'   = s.details_cache
    /\ submission'      = s.submission
    /\ last'            = s.last
    /\ uncached'        = Outcome(s0.last)
    /\ other'           = [other EXCEPT !.current_search = s.current_search]
    /\ UNCHANGED <<who, probe>>

\* The response leaves with the session cookie of the browser that sent the
\* request (Flask's session is the signed cookie of that browser); the two
\* memoizing caches live in the server process and are shared.
Commit(s, s0) ==
    /\ search_history'  = s.search_history
    /\ current_search'  = s.current_search
    /\ current_recipes' = s.current_recipes
    /\ cache'           = s.cache
    /\ details_cache'   = s.details_cache
    /\ submission'      = s.submission
    /\ last'            = s.last
    /\ uncached'        = Outcome(s0.last)
    /\ UNCHANGED <<who, other, probe>>

Generate(raw, dietary_prefs, page, up, dups) ==
    Commit(GenerateStep(raw, dietary_prefs, page, up, dups, TRUE),
           GenerateStep(raw, dietary_prefs, page, up, dups, FALSE))

----------------------------------------------------------------------------
(* /results (GET) *)

ResultsStep(page) ==
    LET l == [Idle EXCEPT !.route = "results", !.page = page]
        recipes == IF current_recipes = <<>> THEN <<>> ELSE current_recipes[1]
    IN  IF recipes = <<>> \/ current_search = <<>>
        THEN Session(search_history, current_search, current_recipes, cache,
                     details_cache, submission,
                     [l EXCEPT !.flash = MSG_NO_RESULTS, !.view = "input"])
        ELSE Session(search_history, current_search, current_recipes, cache,
                     details_cache, submission,
                     [l EXCEPT !.view = "result.html", !.recipes = recipes,
                               !.shown_page = page,
                               !.shown_total = current_search[1].total_pages])

Results(page) == Commit(ResultsStep(page), ResultsStep(page))

----------------------------------------------------------------------------
(* /load-more-recipes (POST) *)

\* (request.form.get('direction') or 'next').lower()
Direction(form_value) == Lower(IF form_value = "" THEN "next" ELSE form_value)

\* int(x or 1)
OrOne(x) == IF x = 0 THEN 1 ELSE x

\* load_more_recipes 543-546
TargetPage(direction, cur, total_pages) ==
    IF direction = "prev" THEN Max(1, cur - 1)
    ELSE Min(total_pages, cur + 1)

\* a navigation that falls back to one page, as /generate does
LoadMoreTotalPages_Reset(total_results, recorded) ==
    IF total_results # 0 THEN PagesFor(total_results) ELSE 1

\* load_more_recipes 589-591
LoadMoreTotalPages(total_results, recorded) ==
    IF total_results # 0 THEN PagesFor(total_results) ELSE recorded

\* a navigation that drops the dietary preferences from its query
LoadMoreQuery_NoPrefs(search, target_page) ==
    Query(Join(search.ingredients), <<>>, OffsetFor(target_page))

\* load_more_recipes 556-562: the query of the target page
LoadMoreQuery(search, target_page) ==
    Query(Join(search.ingredients), search.dietary_prefs, OffsetFor(target_page))

LoadMoreStep(form_direction, up, dups, memo) ==
    IF current_search = <<>>
    THEN Session(search_history, current_search, current_recipes, cache,
                 details_cache, submission,
                 [Idle EXCEPT !.route = "load_more", !.flash = MSG_NO_SEARCH,
                              !.view = "input"])
    ELSE
    LET search      == current_search[1]
        direction   == Direction(form_direction)
        cur         == OrOne(search.current_page)
        total_pages == OrOne(search.total_pages)
        target_page == TargetPage(direction, cur, total_pages)
        moved       == [search EXCEPT !.current_page = target_page]
        resp        == up
        msg         == FailureMessage(resp)
        new_total   == LoadMoreTotalPages(TotalResults(resp), moved.total_pages)
        l           == [Idle EXCEPT !.route = "load_more",
                                    !.ingredients = search.ingredients,
                                    !.dietary_prefs = search.dietary_prefs,
                                    !.direction = direction,
                                    !.session_page = search.current_page,
                                    !.cur = cur,
                                    !.total_pages = total_pages,
                                    !.target_page = target_page,
                                    !.stored = TRUE, !.called = TRUE,
                                    !.query = LoadMoreQuery(search, target_page),
                                    !.resp = resp]
    IN  IF msg # NoFlash
        THEN Session(search_history, <<moved>>, current_recipes, cache,
                     details_cache, submission,
                     [l EXCEPT !.flash = msg, !.view = "input"])
        ELSE StoreCards(search_history, [moved EXCEPT !.total_pages = new_total], cache,
                        submission, l, "result.html",
                        BuildCards(resp.results, search.ingredients, details_cache, dups, memo))

LoadMore(form_direction, up, dups) ==
    Commit(LoadMoreStep(form_direction, up, dups, TRUE),
           LoadMoreStep(form_direction, up, dups, FALSE))

----------------------------------------------------------------------------
(* /recipe/<id> (GET) *)

\* dup: what the detail endpoint answers now; iup: what the
\* analyzedInstructions endpoint answers now
RecipeDetailStep(recipe_id, dup, iup, memo) ==
    LET f == IF memo THEN Memoized(details_cache, recipe_id, dup, Len(details_cache) + 1)
                     ELSE Direct(details_cache, dup)
        l == [Idle EXCEPT !.route = "recipe_detail", !.resp = f.resp]
        failure ==
            CASE f.resp.kind # "http"        -> MSG_DETAIL_ERROR
              [] f.resp.status # 200         -> MSG_NO_DETAILS
              [] f.resp.body = "nonjson"     -> MSG_UPSTREAM
              [] iup.kind # "http"           -> MSG_DETAIL_ERROR
              [] OTHER                       -> NoFlash
    IN  IF failure # NoFlash
        THEN Session(search_history, current_search, current_recipes, cache,
                     f.cache, submission,
                     [l EXCEPT !.flash = failure, !.view = "input"])
        ELSE Session(search_history, current_search, current_recipes, cache,
                     f.cache, submission,
                     [l EXCEPT !.view = "recipe_detail.html",
                               !.recipes = <<[id |-> recipe_id, details |-> TRUE]>>])

RecipeDetail(recipe_id, dup, iup) ==
    Commit(RecipeDetailStep(recipe_id, dup, iup, TRUE),
           RecipeDetailStep(recipe_id, dup, iup, FALSE))

----------------------------------------------------------------------------
(* Cache timeouts (memoize timeout=1800 / timeout=3600): the oldest entry  *)
(* of a cache expires.                                                     *)

CacheExpire ==
    /\ cache # <<>>
    /\ cache' = Tail(cache)
    /\ UNCHANGED <<search_history, current_search, current_recipes,
                   details_cache, last, uncached, submission, who, other, probe>>

DetailsExpire ==
    /\ details_cache # <<>>
    /\ details_cache' = Tail(details_cache)
    /\ UNCHANGED <<search_history, current_search, current_recipes,
                   cache, last, uncached, submission, who, other, probe>>

----------------------------------------------------------------------------
(* The next request comes from the other browser: its cookie becomes the   *)
(* session, the cookie of the browser served so far is set aside.          *)

Switch ==
    /\ who' = IF who = "A" THEN "B" ELSE "A"
    /\ other' = [search_history |-> search_history, current_search |-> current_search,
                 current_recipes |-> current_recipes, submission |-> submission]
    /\ search_history'  = other.search_history
    /\ current_search'  = other.current_search
    /\ current_recipes' = other.current_recipes
    /\ submission'      = other.submission
    /\ UNCHANGED <<cache, details_cache, last, uncached, probe>>

----------------------------------------------------------------------------
(* Initial state: fresh browser sessions and empty caches *)

\* a session cookie without any key
FreshCookie ==
    [search_history |-> <<>>, current_search |-> <<>>, current_recipes |-> <<>>,
     submission |-> <<>>]

NoProbe == [fn |-> "none"]

InitApp ==
    /\ search_history = <<>>
    /\ current_search = <<>>
    /\ current_recipes = <<>>
    /\ cache = <<>>
    /\ details_cache = <<>>
    /\ last = Idle
    /\ uncached = Outcome(Idle)
    /\ submission = <<>>
    /\ who = "A"
    /\ other = FreshCookie

Init == InitApp /\ probe = NoProbe

----------------------------------------------------------------------------
(* Inputs *)

\* page form values and query arguments
PageInputs == {0 - 1, 0} \cup (1..MaxPage)

\* direction form values ("" when the field is absent)
DirectionInputs == {"next", "prev", "PREV", ""}

\* upstream totalResults values
TotalInputs == {0, RECIPES_PER_PAGE + 1, 2 * RECIPES_PER_PAGE + 1, MaxTotalResults}

\* what the search endpoint may answer: failures of every kind ...
FailureResps ==
    {Raised("timeout"), Raised("neterr"),
     HttpResp(402, "json", FALSE, 0, <<>>),
     HttpResp(401, "json", FALSE, 0, <<>>),
     HttpResp(404, "json", FALSE, 0, <<>>),
     HttpResp(200, "nonjson", FALSE, 0, <<>>),
     HttpResp(200, "badshape", FALSE, 0, <<>>)}

\* ... or a page of results, with or without totalResults
OkResps ==
    {HttpResp(200, "json", FALSE, 0, <<>>)} \cup
    {HttpResp(200, "json", TRUE, t, IF t = 0 THEN <<>> ELSE <<1>>) : t \in TotalInputs}

SearchResps == FailureResps \cup OkResps

RecipeIds == {1}

DetailOk == HttpResp(200, "json", FALSE, 0, <<>>)

\* what the detail endpoint may answer
DetailResps == {DetailOk, HttpResp(404, "json", FALSE, 0, <<>>), Raised("neterr")}

\* what the analyzedInstructions endpoint may answer
InstructionResps == {HttpResp(200, "json", FALSE, 0, <<>>), Raised("neterr")}

\* the ingredients form field, split at the commas
RawInputs == {<<" egg", " ", "flour">>, <<" ">>}

\* the diet checkboxes ticked
PrefInputs == {<<"Vegan", "Dairy Free">>}

\* Requests with their inputs drawn from the given sets
GenerateOver(Raws, Prefs, Pages, Resps, DResps) ==
    \E raw \in Raws, dietary_prefs \in Prefs, page \in Pages,
       up \in Resps, dups \in [RecipeIds -> DResps] :
        Generate(raw, dietary_prefs, page, up, dups)

ResultsOver(Pages) == \E page \in Pages : Results(page)

LoadMoreOver(Directions, Resps, DResps) ==
    \E d \in Directions, up \in Resps, dups \in [RecipeIds -> DResps] :
        LoadMore(d, up, dups)

RecipeDetailOver(DResps, IResps) ==
    \E rid \in RecipeIds, dup \in DResps, iup \in IResps :
        RecipeDetail(rid, dup, iup)

----------------------------------------------------------------------------
(* Spec: pagination and classification of failures for one query, every    *)
(* page value, direction and search response                               *)

DoGenerate == GenerateOver(RawInputs, PrefInputs, PageInputs, SearchResps, {DetailOk})

DoResults == ResultsOver(PageInputs)

DoLoadMore == LoadMoreOver(DirectionInputs, SearchResps, {DetailOk})

Next ==
    \/ DoGenerate
    \/ DoResults
    \/ DoLoadMore
    \/ CacheExpire

Spec == Init /\ [][Next]_vars

----------------------------------------------------------------------------
(* SpecQuery: two ingredient lists and two sets of dietary preferences,    *)
(* searched and navigated                                                  *)

QueryRaws == {<<"egg">>, <<"rice ", "flour">>}

QueryPrefs == {<<>>, <<"Vegan", "Dairy Free">>}

QueryResps == {HttpResp(200, "json", TRUE, 2 * RECIPES_PER_PAGE + 1, <<1>>), Raised("neterr")}

QueryGenerate == GenerateOver(QueryRaws, QueryPrefs, {1, 2}, QueryResps, {DetailOk})

QueryLoadMore == LoadMoreOver({"next", "prev"}, QueryResps, {DetailOk})

NextQuery ==
    \/ QueryGenerate
    \/ QueryLoadMore
    \/ CacheExpire

SpecQuery == Init /\ [][NextQuery]_vars

----------------------------------------------------------------------------
(* SpecHistory: more distinct search terms than the history keeps          *)

HistoryRaws ==
    {<<"egg">>, <<"flour">>, <<"rice">>, <<"egg", "flour">>, <<"flour", "egg">>,
     <<"egg", "rice">>, <<" ">>}

HistoryGenerate == GenerateOver(HistoryRaws, {<<>>}, {2}, QueryResps, {DetailOk})

NextHistory == HistoryGenerate

SpecHistory == Init /\ [][NextHistory]_vars

----------------------------------------------------------------------------
(* SpecCache: one query asked again and again while the upstream answers   *)
(* change and cache entries time out                                       *)

CacheResps ==
    {HttpResp(401, "json", FALSE, 0, <<>>),
     HttpResp(200, "json", TRUE, RECIPES_PER_PAGE + 1, <<1>>),
     HttpResp(200, "json", TRUE, 2 * RECIPES_PER_PAGE + 1, <<1>>)}

CacheGenerate == GenerateOver({<<"egg">>}, {<<>>}, {1}, CacheResps, DetailResps)

CacheLoadMore == LoadMoreOver({"next"}, CacheResps, DetailResps)

CacheRecipeDetail == RecipeDetailOver(DetailResps, InstructionResps)

NextCache ==
    \/ CacheGenerate
    \/ CacheLoadMore
    \/ CacheRecipeDetail
    \/ CacheExpire
    \/ DetailsExpire

SpecCache == Init /\ [][NextCache]_vars

----------------------------------------------------------------------------
(* Properties *)

Searching == last.route \in {"generate", "load_more"} /\ last.stored

Navigating == last.route = "load_more" /\ last.stored

SearchState == current_search[1]

\* C1: the target page of a navigation request is min(total_pages,
\* current_page + 1) for next and max(1, current_page - 1) for prev, and it
\* lies in [1, total_pages] of the session's SearchState.
C1_NavigationTarget ==
    (Navigating /\ last.direction \in {"next", "prev"}) =>
        /\ last.direction = "next" =>
               last.target_page = Min(last.total_pages, last.session_page + 1)
        /\ last.direction = "prev" =>
               last.target_page = Max(1, last.session_page - 1)
        /\ last.target_page >= 1
        /\ last.target_page <= last.total_pages

\* C2: a page below 1 or beyond total_pages is clamped: the current_page
\* recorded in SearchState and the current_page handed to the presentation
\* layer are always within [1, total_pages].
C2_PageClamped ==
    /\ current_search # <<>> =>
           /\ SearchState.current_page >= 1
           /\ SearchState.current_page <= SearchState.total_pages
    /\ last.view \in {"results", "result.html"} =>
           /\ last.shown_page >= 1
           /\ last.shown_page <= last.shown_total

\* C3 (as claimed): within one search session no upstream response makes
\* total_pages smaller than the value already recorded.
C3_TotalPagesNeverDecrease ==
    Navigating => SearchState.total_pages >= last.total_pages

\* C3 (amended): within one search session total_pages is at least 1, and a
\* navigation leaves it smaller than the value already recorded only when a
\* status-200 JSON response reports a positive totalResults T, in which case
\* it is ceil(T / 12); a failed response or one with zero or missing
\* totalResults leaves total_pages as recorded.
C3_TotalPagesKeptUnlessReported ==
    /\ Searching => SearchState.total_pages >= 1
    /\ (Navigating /\ SearchState.total_pages < last.total_pages) =>
           /\ IsOk(last.resp)
           /\ last.resp.has_total /\ last.resp.total > 0
           /\ SearchState.total_pages * RECIPES_PER_PAGE >= last.resp.total
           /\ (SearchState.total_pages - 1) * RECIPES_PER_PAGE < last.resp.total
    /\ (Navigating /\ (~IsOk(last.resp) \/ ~last.resp.has_total \/ last.resp.total = 0)) =>
           SearchState.total_pages = last.total_pages

\* a navigation answered with totalResults 0 has kept a page count above 1
C3_Witness ==
    /\ Navigating /\ IsOk(last.resp)
    /\ last.resp.has_total /\ last.resp.total = 0
    /\ last.total_pages = 3 /\ SearchState.total_pages = 3

\* C4: after a status-200 JSON search response reporting totalResults T,
\* total_pages is max(1, ceil(T / 12)) when T > 0 (25 and 30 give 3) and is
\* its previous value (1 for a fresh search) when T is zero or missing;
\* total_pages is always at least 1.
C4_TotalPages ==
    /\ current_search # <<>> => SearchState.total_pages >= 1
    /\ (Searching /\ IsOk(last.resp)) =>
           LET T  == last.resp.total
               tp == SearchState.total_pages
           IN  IF last.resp.has_total /\ T > 0
               THEN /\ tp >= 1
                    /\ tp * RECIPES_PER_PAGE >= T
                    /\ (tp - 1) * RECIPES_PER_PAGE < T
                    /\ T \in {25, 30} => tp = 3
               ELSE tp = IF last.route = "generate" THEN 1 ELSE last.total_pages

\* a search answered with totalResults 25 has recorded 3 pages
C4_Witness ==
    /\ Searching /\ IsOk(last.resp)
    /\ last.resp.has_total /\ last.resp.total = 25
    /\ SearchState.total_pages = 3

\* C5: for every page >= 1 fetched by /generate or /load-more-recipes the
\* offset sent to the upstream is (page - 1) * 12 and non-negative; page 2
\* uses offset 12 and page 1 offset 0.
C5_Offset ==
    (Searching /\ last.called /\ last.target_page >= 1) =>
        /\ last.query.offset = (last.target_page - 1) * 12
        /\ last.query.offset >= 0
        /\ last.query.number = 12
        /\ last.target_page = 1 => last.query.offset = 0
        /\ last.target_page = 2 => last.query.offset = 12

\* /generate has fetched page 2 at offset 12
C5_Witness ==
    /\ last.route = "generate" /\ last.called
    /\ last.target_page = 2 /\ last.query.offset = 12

C6_NavigationKeepsQuery ==
    [][(last'.route = "load_more" /\ last' # last) =>
          /\ search_history' = search_history
          /\ submission' = submission
          /\ current_search = <<>> => (current_search' = <<>> /\ ~last'.called)
          /\ current_search # <<>> =>
                 LET made == submission[1]
                     q    == last'.query
                 IN  /\ current_search' # <<>>
                     /\ current_search'[1].ingredients = current_search[1].ingredients
                     /\ current_search'[1].dietary_prefs = current_search[1].dietary_prefs
                     /\ current_search'[1].ingredients = made.ingredients
                     /\ current_search'[1].dietary_prefs = made.dietary_prefs
                     /\ last'.called
                     /\ q.includeIngredients = Join(made.ingredients)
                     /\ made.ingredients = <<"rice", "flour">> =>
                            q.includeIngredients = <<"rice", ",", "flour">>
                     /\ made.ingredients = <<"egg">> => q.includeIngredients = <<"egg">>
                     /\ made.dietary_prefs = <<>> =>
                            (q.diet = <<>> /\ q.intolerances = <<>>)
                     /\ made.dietary_prefs = <<"Vegan", "Dairy Free">> =>
                            (q.diet = <<"vegan">> /\ q.intolerances = <<"dairy">>)
    ]_vars

\* a navigation of the second query of a session has asked for that query
C6_Witness ==
    /\ Navigating /\ last.called
    /\ Len(search_history) = 2
    /\ submission[1].ingredients = <<"rice", "flour">>
    /\ submission[1].dietary_prefs = <<"Vegan", "Dairy Free">>
    /\ last.query.includeIngredients = <<"rice", ",", "flour">>
    /\ last.query.diet = <<"vegan">>
    /\ last.query.intolerances = <<"dairy">>

\* C7: search_history holds at most 5 search terms and no term twice.
C7_HistoryBounded ==
    /\ Len(search_history) <= 5
    /\ \A i, j \in 1..Len(search_history) :
           i # j => search_history[i] # search_history[j]

\* a submission has put its term at the front of a full history
C7_Witness ==
    /\ last.route = "generate" /\ last.stored
    /\ Len(search_history) = 5
    /\ Head(search_history) = Join(last.ingredients)

\* C8: after every search submission with a non-empty ingredient list the
\* term just submitted is the first element of search_history, also when
\* the term was already in the history.
C8_MostRecentFirst ==
    (last.route = "generate" /\ last.ingredients # <<>>) =>
        /\ search_history # <<>>
        /\ Head(search_history) = Join(last.ingredients)

\* C9: the outcome of every request with the memoizing cache enabled equals
\* the outcome the same request would have with the cache disabled.
C9_CacheTransparent == Outcome(last) = uncached

----------------------------------------------------------------------------
(* normalize_ingredient_name applied on its own to every short name *)

MaxNameLen == 4             \* longest name tried, in characters

\* a unit letter, an upper-case unit letter, a digit, the two kinds of
\* whitespace and a letter of no unit
NameAlphabet == {"g", "K", "2", " ", "\t", "x"}

ExampleName == <<"2", " ", "c", "u", "p", "s", " ", "c", "h", "o", "p", "p", "e", "d", " ", "t", "o", "m", "a", "t", "o", "e", "s">>

ExampleNormalized == <<"c", "h", "o", "p", "p", "e", "d", " ", "t", "o", "m", "a", "t", "o", "e", "s">>

NameInputs ==
    UNION {[1..n -> NameAlphabet] : n \in 0..MaxNameLen} \cup {None, ExampleName}

InitNormalize ==
    /\ InitApp
    /\ \E name \in NameInputs :
           probe = [fn |-> "normalize", name |-> name, done |-> FALSE,
                    result |-> <<>>, again |-> <<>>]

\* normalize_ingredient_name(name), and the function applied to its own result
Normalize ==
    /\ probe.fn = "normalize" /\ ~probe.done
    /\ probe' = [probe EXCEPT !.done = TRUE,
                              !.result = normalize_ingredient_name(probe.name),
                              !.again = normalize_ingredient_name(
                                            normalize_ingredient_name(probe.name))]
    /\ UNCHANGED <<search_history, current_search, current_recipes, cache,
                   details_cache, last, uncached, submission, who, other>>

NextNormalize == Normalize

SpecNormalize == InitNormalize /\ [][NextNormalize]_vars

----------------------------------------------------------------------------
(* SpecCards: result pages of several recipes of the catalogue, some with  *)
(* malformed or missing parts, while the detail endpoint works or fails    *)

CardIds == 2..6

\* the result lists the search endpoint returns
CardPages == {<<6, 2>>, <<6, 3, 2>>, <<4, 5>>}

CardResps == {HttpResp(200, "json", TRUE, 2 * RECIPES_PER_PAGE + 1, page) : page \in CardPages}

\* the detail endpoint answers every recipe alike: 200 JSON, 404, 200 with
\* a body that is not JSON, or no answer
CardDetailResps ==
    {DetailOk, HttpResp(404, "json", FALSE, 0, <<>>),
     HttpResp(200, "nonjson", FALSE, 0, <<>>), Raised("neterr")}

CardRaws == {<<"egg", "flour">>}

CardsGenerate ==
    \E raw \in CardRaws, up \in CardResps, dresp \in CardDetailResps :
        Generate(raw, <<>>, 2, up, [rid \in CardIds |-> dresp])

CardsLoadMore ==
    \E up \in CardResps, dresp \in CardDetailResps :
        LoadMore("next", up, [rid \in CardIds |-> dresp])

CardsResults == Results(1)

NextCards ==
    \/ CardsGenerate
    \/ CardsLoadMore
    \/ CardsResults

SpecCards == Init /\ [][NextCards]_vars

----------------------------------------------------------------------------
(* SpecRetry: searches and navigation over a network that fails some       *)
(* attempts before it answers                                              *)

MaxFailures == 5            \* most failed attempts in a row the network answers with

\* how one attempt of a search fails: no connection in time, or a status
\* of the forcelist
FailureInputs == {ConnectTimeout, RetryStatus(503)}

\* what the network answers after the failures: a page, a status outside
\* the forcelist, or a timeout while the body is read
ThenInputs ==
    {HttpResp(200, "json", TRUE, 2 * RECIPES_PER_PAGE + 1, <<1>>),
     HttpResp(401, "json", FALSE, 0, <<>>),
     Raised("timeout")}

NetInputs ==
    {[failures |-> f, then |-> t] :
        f \in UNION {[1..n -> FailureInputs] : n \in 0..MaxFailures},
        t \in {r \in ThenInputs : r.status \notin STATUS_FORCELIST}}

\* the network of the detail endpoint: it answers at once, or after three
\* failures, or not within the retries
DetailNetInputs ==
    {[failures |-> <<>>, then |-> DetailOk],
     [failures |-> <<ReadTimeout, RetryStatus(503), RetryStatus(503)>>, then |-> DetailOk],
     [failures |-> <<RetryStatus(429), RetryStatus(429), RetryStatus(429), RetryStatus(429)>>,
      then |-> DetailOk]}

RetryGenerate ==
    \E net \in NetInputs, dnet \in DetailNetInputs :
        Generate(<<"egg">>, <<>>, 2, SessionGet(net), [rid \in RecipeIds |-> SessionGet(dnet)])

RetryLoadMore ==
    \E net \in NetInputs, dnet \in DetailNetInputs :
        LoadMore("next", SessionGet(net), [rid \in RecipeIds |-> SessionGet(dnet)])

NextRetry ==
    \/ RetryGenerate
    \/ RetryLoadMore
    \/ DetailsExpire

SpecRetry == Init /\ [][NextRetry]_vars

----------------------------------------------------------------------------
(* SpecSessions: two browsers search and navigate in any interleaving      *)

SessionsGenerate == GenerateOver(QueryRaws, {<<>>}, {1}, QueryResps, {DetailOk})

SessionsLoadMore == LoadMoreOver({"next", "prev"}, QueryResps, {DetailOk})

SessionsResults == ResultsOver({1})

NextSessions ==
    \/ SessionsGenerate
    \/ SessionsLoadMore
    \/ SessionsResults
    \/ Switch

SpecSessions == Init /\ [][NextSessions]_vars

----------------------------------------------------------------------------
(* The classification applied on its own to one ingredient entry *)

MaxProvidedLen == 3         \* longest provided ingredient tried, in characters

MaxTextLen == 4             \* longest ingredient text tried, in characters

MatchAlphabet == {"a", "b", " "}

\* provided ingredients as ParseIngredients leaves them: stripped, not blank
ProvidedInputs ==
    {p \in UNION {[1..n -> MatchAlphabet] : n \in 1..MaxProvidedLen} : StripStr(p) = p}
    \cup {<<"e", "g", "g">>, <<"a", "a", "b", "a">>, <<"2">>, <<"2", " ", "c", "u", "p", "s">>}

TextInputs ==
    UNION {[1..n -> MatchAlphabet] : n \in 0..MaxTextLen}
    \cup {<<"2", " ", "l", "a", "r", "g", "e", " ", "e", "g", "g", "s", ",", " ", "b", "e", "a", "t", "e", "n">>, <<"a", "b", "a", " ", "b">>}

\* entries with an original text, and entries without any text
MatchEntries ==
    {Entry(Absent, t, Absent) : t \in TextInputs}
    \cup {Entry(Absent, Absent, Absent), Entry(None, None, None),
          Entry(<<>>, <<>>, Absent)}

InitMatch ==
    /\ InitApp
    /\ \E p \in ProvidedInputs, q \in ProvidedInputs, e \in MatchEntries :
           /\ (p # q => Len(p) = MaxProvidedLen /\ Len(q) = MaxProvidedLen)
           /\ probe = [fn |-> "match", ingredients |-> {p, q}, entry |-> e,
                       done |-> FALSE, used |-> <<>>, missed |-> <<>>]

\* used_list and missed_list for a recipe with the one entry (338, 388-446)
Match ==
    /\ probe.fn = "match" /\ ~probe.done
    /\ LET provided_names == {LowerStr(x) : x \in probe.ingredients}
           c == Classify(<<probe.entry>>, provided_names)
       IN  probe' = [probe EXCEPT !.done = TRUE, !.used = c.used, !.missed = c.missed]
    /\ UNCHANGED <<search_history, current_search, current_recipes, cache,
                   details_cache, last, uncached, submission, who, other>>

NextMatch == Match

SpecMatch == InitMatch /\ [][NextMatch]_vars

----------------------------------------------------------------------------
(* Submissions without ingredients *)

\* the entries of an ingredients field that are empty or only whitespace
BlankEntries == {"", " "}

\* the ingredients field holds no non-blank comma-separated entry
NoIngredientsProvided(raw) == \A i \in 1..Len(raw) : raw[i] \in BlankEntries

\* C11: a /generate submission whose ingredients field has no non-blank
\* entry redirects to the input page with the warning, makes no upstream
\* call and leaves search_history, current_search and current_recipes (and
\* the caches) exactly as they were before the request.
C11_BlankSubmissionInert ==
    [][(last' # last /\ last'.route = "generate" /\ NoIngredientsProvided(last'.raw))
        => /\ search_history' = search_history
           /\ current_search' = current_search
           /\ current_recipes' = current_recipes
           /\ cache' = cache
           /\ details_cache' = details_cache
           /\ ~last'.called
           /\ last'.flash = MSG_NO_INGREDIENTS
           /\ last'.view = "input"]_vars

\* a blank submission was handled while a search and its recipes were stored
C11_Witness ==
    /\ last.route = "generate"
    /\ NoIngredientsProvided(last.raw)
    /\ last.flash = MSG_NO_INGREDIENTS
    /\ current_search # <<>>
    /\ current_recipes # <<>>
    /\ search_history # <<>>

----------------------------------------------------------------------------
(* The normalizer *)

\* C19: normalize_ingredient_name is idempotent: applying it to its own
\* result gives that result again.
C19_Idempotent ==
    (probe.fn = "normalize" /\ probe.done) => probe.again = probe.result

\* a name that normalization changed, without emptying it, was normalized
C19_Witness ==
    /\ probe.fn = "normalize" /\ probe.done
    /\ probe.name # None
    /\ probe.result # <<>>
    /\ probe.result # probe.name

\* a token that the normalizer is to remove: all digits, or a unit word
Removable(token) == IsDigit(token) \/ token \in MeasurementWords

\* C20: the result is the lowercased whitespace-delimited tokens of the
\* name, in order, without the purely numeric tokens and the unit words,
\* joined by single spaces; it holds no numeric token and no unit word;
\* the empty string and None give the empty string; and
\* "2 cups chopped tomatoes" gives "chopped tomatoes".
C20_Normalized ==
    (probe.fn = "normalize" /\ probe.done) =>
        LET name   == probe.name
            result == probe.result
            tokens == IF name = None THEN <<>> ELSE SplitWords(LowerStr(name))
            kept   == SelectSeq(tokens, LAMBDA t : ~Removable(t))
        IN  /\ SplitWords(result) = kept
            /\ \A i \in 1..Len(result) :
                   /\ result[i] # "\t"
                   /\ result[i] = " " => /\ i > 1 /\ i < Len(result)
                                          /\ result[i + 1] # " "
            /\ \A i \in 1..Len(SplitWords(result)) : ~Removable(SplitWords(result)[i])
            /\ (name = None \/ name = <<>>) => result = <<>>
            /\ name = ExampleName => result = ExampleNormalized

\* the example name was normalized
C20_Witness ==
    /\ probe.fn = "normalize" /\ probe.done
    /\ probe.name = ExampleName
    /\ probe.result = ExampleNormalized

----------------------------------------------------------------------------
(* The classification of one ingredient *)

\* the overlap of a normalized provided ingredient q and a normalized recipe
\* ingredient n: one is a substring of the other, or a word longer than 2
\* characters of one is a substring of the other
Overlap(q, n) ==
    \/ IsSubstring(q, n)
    \/ IsSubstring(n, q)
    \/ \E w \in {SplitWords(q)[i] : i \in 1..Len(SplitWords(q))} :
           Len(w) > 2 /\ IsSubstring(w, n)
    \/ \E w \in {SplitWords(n)[i] : i \in 1..Len(SplitWords(n))} :
           Len(w) > 2 /\ IsSubstring(w, q)

\* the text of the entry, "" when it has none
EntryText(e) == IF Truthy(e.original) THEN e.original ELSE <<>>

\* C15: a recipe ingredient is in `used` if and only if some provided
\* ingredient p overlaps it (q = normalize(p), n = normalize(text): q in n,
\* n in q, a word of q longer than 2 in n, or a word of n longer than 2 in
\* q); otherwise it is in `missed`.  Provided {"egg"} puts
\* "2 large eggs, beaten" in `used`.
C15_UsedIffOverlap ==
    (probe.fn = "match" /\ probe.done) =>
        LET text == EntryText(probe.entry)
            n    == normalize_ingredient_name(text)
            hit  == \E p \in probe.ingredients :
                        Overlap(normalize_ingredient_name(p), n)
        IN  /\ hit  => (probe.used = <<text>> /\ probe.missed = <<>>)
            /\ ~hit => (probe.used = <<>> /\ probe.missed = <<text>>)
            /\ (probe.ingredients = {<<"e", "g", "g">>} /\ text = <<"2", " ", "l", "a", "r", "g", "e", " ", "e", "g", "g", "s", ",", " ", "b", "e", "a", "t", "e", "n">>) => probe.used = <<text>>

\* the example was classified, and an ingredient that overlaps no provided
\* ingredient only by a word of its own
C15_Witness ==
    /\ probe.fn = "match" /\ probe.done
    /\ \/ probe.ingredients = {<<"e", "g", "g">>} /\ probe.used = <<<<"2", " ", "l", "a", "r", "g", "e", " ", "e", "g", "g", "s", ",", " ", "b", "e", "a", "t", "e", "n">>>>
       \/ probe.ingredients = {<<"a", "a", "b", "a">>} /\ probe.used = <<<<"a", "b", "a", " ", "b">>>>

\* the entry has no original, no originalName and no name
NoSourceText(e) == ~Truthy(e.original) /\ ~Truthy(e.originalName) /\ ~Truthy(e.name)

\* C17: a recipe ingredient that has no source text and whose normalized
\* form is empty is never classified as used.
C17_NoTextNeverUsed ==
    (/\ probe.fn = "match" /\ probe.done
     /\ NoSourceText(probe.entry)
     /\ normalize_ingredient_name(EntryText(probe.entry)) = <<>>)
        => probe.used = <<>>

----------------------------------------------------------------------------
(* Recipe cards *)

\* the request handled last fetched a page and got a status-200 JSON object
PageFetched ==
    /\ last.route \in {"generate", "load_more"}
    /\ last.stored
    /\ IsOk(last.resp)

\* the stored recipe list, <<>> when there is none
StoredCards == IF current_recipes = <<>> THEN <<>> ELSE current_recipes[1]

\* C12: for a status-200 JSON search response, a problem confined to one
\* recipe (detail fetch failing, nutrition missing or unparsable,
\* extendedIngredients missing or with an entry that fails to parse) never
\* aborts the page: the request shows results and the stored recipe list
\* has one card per upstream result, in upstream order.
C12_PageNeverAborted ==
    PageFetched =>
        /\ last.view \in {"results", "result.html"}
        /\ Len(StoredCards) = Len(last.resp.results)
        /\ \A i \in 1..Len(StoredCards) : StoredCards[i].id = last.resp.results[i]

\* the card shows text t for the upstream entry e
Shows(t, e) ==
    /\ e.kind = "object"
    /\ \/ t = FallbackTxt(e)
       \/ ~EntryRaises(e) /\ t = OriginalTxt(e)

\* used and missed are a partition of the entries that keeps their order
RECURSIVE IsPartition(_, _, _)
IsPartition(entries, used, missed) ==
    IF entries = <<>> THEN used = <<>> /\ missed = <<>>
    ELSE \/ /\ used # <<>>
            /\ Shows(Head(used), Head(entries))
            /\ IsPartition(Tail(entries), Tail(used), missed)
         \/ /\ missed # <<>>
            /\ Shows(Head(missed), Head(entries))
            /\ IsPartition(Tail(entries), used, Tail(missed))

\* the upstream ingredient list a card was made from
UpstreamIngredients(card) == Extended(Recipe(card.id), Detail(card.id), card.details)

\* C16: for every recipe with a non-empty upstream ingredient list, the
\* used and missed lists of its card are a partition of that list: every
\* upstream ingredient is in exactly one of them, nothing else is, and
\* each list is in upstream order.
C16_UsedMissedPartition ==
    \A i \in 1..Len(StoredCards) :
        UpstreamIngredients(StoredCards[i]) # <<>> =>
            IsPartition(UpstreamIngredients(StoredCards[i]),
                        StoredCards[i].used, StoredCards[i].missed)

\* neither the search record nor the available detail record of the card
\* has an ingredient entry
NoIngredientSupplied(card) ==
    /\ Recipe(card.id).extendedIngredients \in {Absent, <<>>}
    /\ ~card.details \/ Detail(card.id).extendedIngredients \in {Absent, <<>>}

\* C18: every assembled card has at least one entry in used or missed;
\* when neither the search record nor the detail record supplies an
\* ingredient, used is empty and missed is the single placeholder entry
\* "Ingredients not available".
C18_CardNeverEmpty ==
    \A i \in 1..Len(StoredCards) :
        /\ Len(StoredCards[i].used) + Len(StoredCards[i].missed) >= 1
        /\ NoIngredientSupplied(StoredCards[i]) =>
               /\ StoredCards[i].used = <<>>
               /\ StoredCards[i].missed = <<Placeholder>>

\* a stored page has a card with the placeholder next to a card with a
\* used and a missed ingredient
C18_Witness ==
    /\ PageFetched
    /\ \E i \in 1..Len(StoredCards) :
           NoIngredientSupplied(StoredCards[i]) /\ StoredCards[i].missed = <<Placeholder>>
    /\ \E i \in 1..Len(StoredCards) :
           StoredCards[i].used # <<>> /\ StoredCards[i].missed # <<>>

----------------------------------------------------------------------------
(* Retries *)

\* the responses memoized by fetch_recipe_details
DetailResponses == {details_cache[i][2] : i \in 1..Len(details_cache)}

----------------------------------------------------------------------------
(* Two sessions *)

\* C14: a request handled for one session never changes the SearchState,
\* the search_history or the stored recipe list of the other session, and
\* the pages of a session are computed from its own SearchState only.
C14_SessionsIsolated ==
    [][(who' = who /\ last' # last) =>
          /\ other' = other
          /\ (last'.route = "load_more" /\ current_search # <<>>) =>
                 /\ last'.ingredients = current_search[1].ingredients
                 /\ last'.dietary_prefs = current_search[1].dietary_prefs
                 /\ last'.session_page = current_search[1].current_page
                 /\ last'.query = LoadMoreQuery(current_search[1], last'.target_page)
          /\ (last'.route = "results" /\ last'.view = "result.html") =>
                 /\ last'.recipes = current_recipes[1]
                 /\ last'.shown_total = current_search[1].total_pages]_vars

\* a navigation was served to one session while the other session holds a
\* search for other ingredients on another page
C14_Witness ==
    /\ last.route = "load_more" /\ last.view = "result.html"
    /\ current_search # <<>> /\ other.current_search # <<>>
    /\ other.current_recipes # <<>>
    /\ other.current_search[1].ingredients # current_search[1].ingredients
    /\ other.current_search[1].current_page # current_search[1].current_page

----------------------------------------------------------------------------
(* SpecAssemble: the body of the loop over the results applied on its own  *)
(* to one search record and one detail record                              *)

MaxNutrients == 2           \* most nutrient records of a search record tried

CARBOHYDRATES == <<"C", "a", "r", "b", "o", "h", "y", "d", "r", "a", "t", "e", "s">>

PROTEIN_CALORIES == <<"P", "r", "o", "t", "e", "i", "n", " ", "C", "a", "l", "o", "r", "i", "e", "s">>

FAT == <<"F", "a", "t">>

NutrientInputs ==
    {Nutrient(name, "number", tenths) :
        name \in {CALORIES, PROTEIN_NAME, CARBOHYDRATES, PROTEIN_CALORIES, FAT},
        tenths \in {50, 80, 25}}
    \cup {Nutrient(name, amount, 0) :
        name \in {CALORIES, PROTEIN_NAME, CARBOHYDRATES, PROTEIN_CALORIES, FAT},
        amount \in {"missing", "text"}}
    \cup {NullNutrient, Nutrient(None, "number", 50)}

SearchBlocks ==
    {NutritionBlock("object", nutrients) :
        nutrients \in UNION {[1..n -> NutrientInputs] : n \in 0..MaxNutrients}}
    \cup {NoBlock, NutritionBlock("null", <<>>), NutritionBlock("nokey", <<>>)}

DetailBlocks ==
    {NoBlock, NutritionBlock("nulllist", <<>>),
     NutritionBlock("object", <<Nutrient(PROTEIN_NAME, "number", 25)>>),
     NutritionBlock("object", <<Nutrient(CALORIES, "missing", 0)>>)}

\* records that differ in their nutrition only
NutritionRecords(Blocks) == {[Bare(6) EXCEPT !.nutrition = b] : b \in Blocks}

\* records that differ in the other fields of a card
FieldRecords(Ingredients, Minutes, Servings, Flags) ==
    {[Bare(6) EXCEPT !.extendedIngredients = e, !.readyInMinutes = m,
                     !.servings = v, !.flags = f] :
        e \in Ingredients, m \in Minutes, v \in Servings, f \in Flags}

SearchFields ==
    FieldRecords({Absent, <<>>, <<Entry(EGG, Absent, Absent), Entry(SALT, Absent, Absent)>>},
                 {Absent, Zero, Num("30")}, {Absent, Num("4")},
                 SUBSET {"vegetarian", "vegan"})

DetailFields ==
    FieldRecords({Absent, <<Entry(RICE, Absent, Absent), Entry(SALT, Absent, Absent)>>},
                 {Absent, Zero, Num("45")}, {Absent, Num("2")},
                 SUBSET {"vegetarian", "glutenFree"})

\* the inputs of one assembly
AssembleProbe(r, d, available) ==
    [fn |-> "assemble", r |-> r, d |-> d, available |-> available,
     done |-> FALSE, card |-> <<>>]

InitAssemble ==
    /\ InitApp
    /\ \E available \in BOOLEAN :
           \/ \E r \in NutritionRecords(SearchBlocks), d \in NutritionRecords(DetailBlocks) :
                  probe = AssembleProbe(r, d, available)
           \/ \E r \in SearchFields, d \in DetailFields :
                  probe = AssembleProbe(r, d, available)

\* the card of the search record, with the detail record if it is available
\* (341-485), for the provided ingredient "egg"
AssembleOne ==
    /\ probe.fn = "assemble" /\ ~probe.done
    /\ probe' = [probe EXCEPT
                    !.done = TRUE,
                    !.card = <<Assemble(probe.r, probe.d, probe.available, {EGG}).card>>]
    /\ UNCHANGED <<search_history, current_search, current_recipes, cache,
                   details_cache, last, uncached, submission, who, other>>

NextAssemble == AssembleOne

SpecAssemble == InitAssemble /\ [][NextAssemble]_vars

----------------------------------------------------------------------------
(* The nutrition of a card *)

Assembled == probe.fn = "assemble" /\ probe.done

\* the nutrient records of a block
Records(block) == IF block.kind = "object" THEN block.nutrients ELSE <<>>

Keyword(key) ==
    CASE key = "calories" -> CALORIE
      [] key = "protein"  -> PROTEIN
      [] key = "carbs"    -> CARBOHYDRATE

NutritionKeys == {"calories", "protein", "carbs"}

\* the lowercased name of the record contains the keyword of the key
Names(nutrient, key) ==
    /\ nutrient.kind = "object"
    /\ IsText(nutrient.name)
    /\ IsSubstring(Keyword(key), LowerStr(nutrient.name))

\* the positions of the records that name the key
Naming(records, key) == {i \in 1..Len(records) : Names(records[i], key)}

Last(positions) == CHOOSE i \in positions : \A j \in positions : j <= i

\* every record is an object with a text for a name and a number for an
\* amount
WellFormed(records) ==
    \A i \in 1..Len(records) :
        /\ records[i].kind = "object"
        /\ IsText(records[i].name)
        /\ records[i].amount = "number"

\* the field of the card's nutrition: <<>> when the card has no nutrition
\* or the nutrition has no such field
Field(card, key) == IF card.nutrition = <<>> THEN <<>> ELSE card.nutrition[1][key]

\* C21: for a search record with well-formed nutrient records, each field
\* of the card's nutrition that some record names is the value of the LAST
\* record that names it, whatever other keyword that record's name contains
C21_LastRecordWins ==
    Assembled =>
        LET records == Records(probe.r.nutrition)
        IN  WellFormed(records) =>
                \A key \in NutritionKeys :
                    Naming(records, key) # {} =>
                        Field(probe.card[1], key)
                            = Value(key, records[Last(Naming(records, key))])

\* the records the nutrition of the card was parsed from: those of the
\* search record if they set a field, else those of the detail record
SourceUsed ==
    IF BlockNutrition(probe.r.nutrition) # NoNutrition THEN Records(probe.r.nutrition)
    ELSE IF probe.available THEN Records(probe.d.nutrition)
    ELSE <<>>

\* C22: a field is present in the card's nutrition only if some record of
\* the source used names it, and a nutrition without any field is None
C22_NoFieldWithoutRecord ==
    Assembled =>
        /\ \A key \in NutritionKeys :
               Field(probe.card[1], key) # <<>> => Naming(SourceUsed, key) # {}
        /\ probe.card[1].nutrition # <<>> =>
               \E key \in NutritionKeys : Field(probe.card[1], key) # <<>>

\* a card with protein and without calories, from records none of which
\* names calories; and a card whose nutrition is None
C22_Witness ==
    /\ Assembled
    /\ Records(probe.r.nutrition) # <<>>
    /\ Naming(Records(probe.r.nutrition), "calories") = {}
    /\ Field(probe.card[1], "protein") # <<>>
    /\ Field(probe.card[1], "calories") = <<>>

\* every record, of the search record or of the available detail record,
\* that names the key carries no amount
OnlyWithoutAmount(key) ==
    LET all == Records(probe.r.nutrition)
               \o (IF probe.available THEN Records(probe.d.nutrition) ELSE <<>>)
    IN  /\ Naming(all, key) # {}
        /\ \A i \in Naming(all, key) : all[i].amount = "missing"

\* C23: a field whose records carry no amount is absent from the card's
\* nutrition, never set to 0
C23_NoDefaultZero ==
    Assembled =>
        \A key \in NutritionKeys :
            OnlyWithoutAmount(key) => Field(probe.card[1], key) = <<>>

----------------------------------------------------------------------------
(* The fields of a card that both records can supply *)

\* the value of the search record when it has one, else that of the
\* available detail record, else None
SearchFirst(of_search, of_details) ==
    IF of_search # Absent THEN of_search
    ELSE IF probe.available /\ of_details # Absent THEN of_details
    ELSE None

\* C24: cooking time, servings, nutrition, ingredients and dietary flags
\* of a card are those of the search record wherever it has them, and
\* those of the detail record only where the search record has none
C24_SearchRecordFirst ==
    Assembled =>
        /\ probe.card[1].readyInMinutes
               = SearchFirst(probe.r.readyInMinutes, probe.d.readyInMinutes)
        /\ probe.card[1].servings = SearchFirst(probe.r.servings, probe.d.servings)
        /\ \A key \in probe.r.flags :
               \E i \in 1..Len(probe.card[1].dietary_info) :
                   probe.card[1].dietary_info[i] = DietLabel(key)
        /\ BlockNutrition(probe.r.nutrition) # NoNutrition =>
               probe.card[1].nutrition = <<BlockNutrition(probe.r.nutrition)>>
        /\ probe.r.extendedIngredients \notin {Absent, <<>>} =>
               /\ probe.card[1].used = Classify(probe.r.extendedIngredients, {EGG}).used
               /\ probe.card[1].missed = Classify(probe.r.extendedIngredients, {EGG}).missed

----------------------------------------------------------------------------
(* Provided ingredients that are only numbers and units *)

\* C26: a recipe ingredient with a non-empty normalized form is `used` only
\* if it overlaps a provided ingredient whose normalized form is not empty;
\* a provided ingredient such as "2 cups" never makes it used by itself
C26_EmptyProvidedNeverMatches ==
    (/\ probe.fn = "match" /\ probe.done
     /\ normalize_ingredient_name(EntryText(probe.entry)) # <<>>
     /\ probe.used # <<>>)
        => \E p \in probe.ingredients :
               /\ normalize_ingredient_name(LowerStr(p)) # <<>>
               /\ Overlap(normalize_ingredient_name(LowerStr(p)),
                          normalize_ingredient_name(EntryText(probe.entry)))

----------------------------------------------------------------------------
(* The stored recipes and the stored SearchState *)

\* what the stored SearchState asks the upstream for: ingredients, dietary
\* preferences and page
SearchKey(cs) ==
    IF cs = <<>> THEN <<>>
    ELSE <<cs[1].ingredients, cs[1].dietary_prefs, cs[1].current_page>>

\* /results has recipes to render
HasRecipes(cr) == cr # <<>> /\ cr[1] # <<>>

\* C25: the stored recipes are those of the page the stored SearchState
\* names.  As a step: a request that leaves another ingredient list, other
\* preferences or another page in current_search than it found, with
\* recipes in the session, has stored the recipes it assembled from the
\* page it fetched for exactly that search -- also when it ended in an
\* upstream or network error
C25_RecipesOfStoredSearch ==
    [][(HasRecipes(current_recipes') /\ SearchKey(current_search') # SearchKey(current_search))
          => /\ last'.view \in {"results", "result.html"}
             /\ current_recipes' = <<last'.recipes>>
             /\ last'.ingredients = current_search'[1].ingredients
             /\ last'.dietary_prefs = current_search'[1].dietary_prefs
             /\ last'.target_page = current_search'[1].current_page]_vars

====
